---- MODULE Spec2Model ----
(***************************************************************************)
(* The ZongJi session orchestrator of src/index.js as a state machine.     *)
(*                                                                         *)
(* One step of the model is one task of the JavaScript event loop: a call  *)
(* of a public method, or the callback of one answered query, together     *)
(* with every promise reaction (microtask) that it triggers.               *)
(*                                                                         *)
(* The two mysql2 connections are the environment.  A connection answers   *)
(* its queries one at a time in the order they were issued (the MySQL      *)
(* protocol is sequential per connection); each answer is a success or an  *)
(* error chosen by the environment.  A statement sent on a connection that *)
(* is already destroyed fails at once, in the task that sends it (mysql2    *)
(* calls the callback with its closed-state error); a statement in flight  *)
(* when its connection is destroyed may still be answered, either way.     *)
(*                                                                         *)
(* start() is called at most once per session: what a second start() does  *)
(* is left open by the specification (section 9).                          *)
(***************************************************************************)
EXTENDS Integers, Sequences, FiniteSets, TLC

\* ------------------------------------------------------------- bounds
MaxLogs == 2        \* entries of a SHOW BINARY LOGS answer
MaxEvents == 2      \* events the decoder reads from the stream

\* ------------------------------------------------- JavaScript values
\* undefined is the empty tuple, a defined value v is <<v>>
Undef == <<>>
Def(v) == <<v>>
IsDef(x) == x # <<>>
Val(x) == x[1]
\* truthiness of an optional boolean (options.startAtEnd ? ... : null)
Truthy(x) == IsDef(x) /\ Val(x) = TRUE

\* ------------------------------------------------------ input domains
EventNames == {"writerows", "updaterows"}
Dbs == {"db1", "db2"}
Tables == {"t1", "t2"}
TableIds == {1}

\* a SchemaRule: true | array of table names | predicate on the table name
SchemaRules ==
  {[kind |-> "all", tables |-> {}, f |-> [t \in Tables |-> FALSE]]}
  \cup {[kind |-> "list", tables |-> S, f |-> [t \in Tables |-> FALSE]] : S \in SUBSET Tables}
  \cup {[kind |-> "fn", tables |-> {}, f |-> g] : g \in {[t \in Tables |-> t = "t1"], [t \in Tables |-> FALSE], [t \in Tables |-> TRUE]}}
\* a schema map: each schema name has a rule or is not a key of the object
SchemaMaps == [Dbs -> {Undef} \cup {Def(r) : r \in SchemaRules}]
EventLists == {Def(S) : S \in SUBSET EventNames}

NoFilterArgs ==
  [includeEvents |-> Undef, excludeEvents |-> Undef, includeSchema |-> Undef, excludeSchema |-> Undef]
\* the filter part of the argument of start(), for the lifecycle specification
StartFilterArgs ==
  {NoFilterArgs, [NoFilterArgs EXCEPT !.excludeEvents = Def({"updaterows"})]}
\* the option part of the argument of start()
StartOptionArgs ==
  {[serverId |-> Def(1), filename |-> fp[1], position |-> fp[2], startAtEnd |-> s] :
     fp \in {<<Undef, Undef>>, <<Def(9), Def(120)>>}, s \in {Undef, Def(TRUE)}}
\* the filter arguments the filter functions are checked on
FilterArgs ==
  {[NoFilterArgs EXCEPT !.includeEvents = i, !.excludeEvents = e] :
     i \in {Undef} \cup EventLists, e \in {Undef} \cup EventLists}
  \cup {[NoFilterArgs EXCEPT !.includeSchema = i, !.excludeSchema = e] :
     i \in {Undef} \cup {Def(m) : m \in SchemaMaps}, e \in {Undef} \cup {Def(m) : m \in SchemaMaps}}

\* the answers of the server
ChecksumValues == {"NONE", "CRC32"}
ChecksumErrors == {"ER_UNKNOWN_SYSTEM_VARIABLE", "ER_ACCESS_DENIED"}
StreamErrors == {"ER_CONNECTION_LOST"}
\* the error of a statement sent on a destroyed connection
ClosedError == "ER_CONNECTION_CLOSED"
\* the listing of the log files in creation order: file i has Log_name i,
\* and the files differ in size
Listings ==
  {[i \in 1..k |-> [Log_name |-> i, File_size |-> 1540 * i]] : k \in 0..MaxLogs}
\* the table-map events of the decoder
TableMapEvents ==
  {[tableId |-> id, schemaName |-> "db1", tableName |-> t] : id \in TableIds, t \in Tables}
\* the rows INFORMATION_SCHEMA.COLUMNS holds for a table
Columns(schemaName, tableName) == <<tableName, "id">>

VARIABLES
  options, filters, tableMap, ready, stopped, useChecksum, ctrlConnectionOwner,
  ctrlQueue, ctrlDestroyed, connQuery, connDestroyed, connPaused,
  BinlogClass, binlogStream,
  startArgs, checksumEnabled, chain, tcPromise, fbPromise, allPromise,
  emitted,
  stopCalls, stopPhase, teardown, nextCalls, streamSql, listing, negFailed,
  lookups, events, call, answers, checksumReply

vars ==
  <<options, filters, tableMap, ready, stopped, useChecksum, ctrlConnectionOwner,
    ctrlQueue, ctrlDestroyed, connQuery, connDestroyed, connPaused,
    BinlogClass, binlogStream,
    startArgs, checksumEnabled, chain, tcPromise, fbPromise, allPromise,
    emitted,
    stopCalls, stopPhase, teardown, nextCalls, streamSql, listing, negFailed,
    lookups, events, call, answers, checksumReply>>

\* the fields of the session object and of its two connections
session ==
  <<options, filters, tableMap, ready, stopped, useChecksum, ctrlConnectionOwner,
    ctrlQueue, ctrlDestroyed, connQuery, connDestroyed, connPaused,
    BinlogClass, binlogStream,
    startArgs, checksumEnabled, chain, tcPromise, fbPromise, allPromise, emitted>>

\* ------------------------------------------------------------ helpers
\* _options: keeps the four option keys of its argument
Options(a) ==
  [serverId |-> a.serverId, filename |-> a.filename, position |-> a.position, startAtEnd |-> a.startAtEnd]
\* _filters: keeps the four filter keys of its argument
Filters(a) ==
  [includeEvents |-> a.includeEvents, excludeEvents |-> a.excludeEvents,
   includeSchema |-> a.includeSchema, excludeSchema |-> a.excludeSchema]
\* get(name)
Get(name) == options[name]

\* this.emit(type, ...): one more notification on the channel
Emit(em, type, evt, err) == Append(em, [type |-> type, evt |-> evt, err |-> err])
Emitted(type) == \E i \in 1..Len(emitted) : emitted[i].type = type
CountEmitted(type) == Cardinality({i \in 1..Len(emitted) : emitted[i].type = type})

\* settling a promise: only a pending promise changes
Resolve(p) == IF p = "pending" THEN "resolved" ELSE p
Reject(p) == IF p = "pending" THEN "rejected" ELSE p

\* a query waiting for its answer on the control connection
CtrlQuery(kind, evt) == [kind |-> kind, evt |-> evt]
\* a statement waiting for its answer on the stream connection
StreamQuery(sql, stage) == [sql |-> sql, stage |-> stage]
SelectOne == "SELECT 1"
SetChecksumSql == "set @master_binlog_checksum=@@global.binlog_checksum"
\* err.toString().match(/ER_UNKNOWN_SYSTEM_VARIABLE/)
Matches(e) == e = "ER_UNKNOWN_SYSTEM_VARIABLE"

\* ------------------------------------------------------------- Init
InitWith(f) ==
  /\ options = [serverId |-> Undef, filename |-> Undef, position |-> Undef, startAtEnd |-> Undef]
  /\ filters = f
  /\ tableMap = [id \in TableIds |-> Undef]
  /\ ready = FALSE
  /\ stopped = FALSE
  /\ useChecksum = FALSE
  /\ ctrlConnectionOwner = TRUE
  /\ ctrlQueue = <<>>
  /\ ctrlDestroyed = FALSE
  /\ connQuery = Undef
  /\ connDestroyed = FALSE
  /\ connPaused = FALSE
  /\ BinlogClass = FALSE
  /\ binlogStream = Undef
  /\ startArgs = Undef
  /\ checksumEnabled = TRUE
  /\ chain = "idle"
  /\ tcPromise = "none"
  /\ fbPromise = "none"
  /\ allPromise = "none"
  /\ emitted = <<>>
  /\ stopCalls = 0
  /\ stopPhase = "never"
  /\ teardown = [connDestroy |-> 0, kill |-> 0, ctrlDestroy |-> 0, killFailed |-> FALSE]
  /\ nextCalls = <<>>
  /\ streamSql = <<>>
  /\ listing = Undef
  /\ negFailed = {}
  /\ lookups = <<>>
  /\ events = 0
  /\ call = Undef
  /\ answers = <<>>
  /\ checksumReply = ""

Init == InitWith(Filters(NoFilterArgs))


\* ----------------------------------------------------- start(): 143-188
\* mutant: the decoder is built without looking at stopped
ThenGuardAlways == TRUE
\* line 177: the decoder is built only when the session is not stopped
ThenGuard == ~stopped

\* lines 175-186: the reaction to Promise.all being fulfilled
StartThen(em) ==
  /\ BinlogClass' = TRUE
  /\ IF ThenGuard
       THEN /\ binlogStream' = Def([connDestroyed |-> connDestroyed])
            /\ ready' = TRUE
            /\ emitted' = Emit(em, "ready", Undef, "")
       ELSE /\ UNCHANGED <<binlogStream, ready>>
            /\ emitted' = em

\* lines 174-187: Promise.all over the negotiation promises, with its reactions.
\* all is the state of the combined promise before this task, tc and fb the
\* states of the two negotiation promises after it, e the error of a rejection
Settle(all, tc, fb, e, em) ==
  /\ tcPromise' = tc
  /\ fbPromise' = fb
  /\ IF all = "pending" /\ "rejected" \in {tc, fb}
       THEN /\ allPromise' = "rejected"
            /\ emitted' = Emit(em, "error", Undef, e)
            /\ UNCHANGED <<BinlogClass, binlogStream, ready>>
       ELSE IF all = "pending" /\ tc = "resolved" /\ fb \in {"none", "resolved"}
         THEN /\ allPromise' = "fulfilled"
              /\ StartThen(em)
         ELSE /\ allPromise' = all
              /\ emitted' = em
              /\ UNCHANGED <<BinlogClass, binlogStream, ready>>

\* lines 148 and 159: a negotiation operation is launched only when not stopped
LaunchGuard == ~stopped

\* start(options)
Start(a) ==
  /\ allPromise = "none"
  /\ options' = Options(a)
  /\ filters' = Filters(a)
  /\ startArgs' = Def(a)
  /\ LET tail == Truthy(a.startAtEnd)
         q1 == IF LaunchGuard THEN <<CtrlQuery("checksum", Undef)>> ELSE <<>>
         q2 == IF tail /\ LaunchGuard THEN <<CtrlQuery("showlogs", Undef)>> ELSE <<>>
     IN /\ ctrlQueue' = ctrlQueue \o q1 \o q2
        /\ chain' = IF LaunchGuard THEN "select" ELSE chain
        /\ checksumEnabled' = IF LaunchGuard THEN TRUE ELSE checksumEnabled
        /\ Settle("pending",
                  IF LaunchGuard THEN "pending" ELSE "resolved",
                  IF ~tail THEN "none" ELSE IF LaunchGuard THEN "pending" ELSE "resolved",
                  "", emitted)
  /\ UNCHANGED <<tableMap, stopped, useChecksum, ctrlConnectionOwner, ctrlDestroyed,
                 connQuery, connDestroyed, connPaused,
                 stopCalls, stopPhase, teardown, nextCalls, streamSql, listing,
                 negFailed, lookups, events, call>>
  /\ UNCHANGED <<answers, checksumReply>>

\* ------------------------------------------- _isChecksumEnabled: 49-86
\* lines 149-155 called by the promise chain of one task: next(err) first when
\* errFirst, then in every case next(null, ce) from the last .then (83-85)
Continuation(errFirst, e, ce) ==
  /\ useChecksum' = ce
  /\ nextCalls' = nextCalls \o (IF errFirst THEN <<"err", "ok">> ELSE <<"ok">>)
  /\ Settle(allPromise,
            IF errFirst THEN Reject(tcPromise) ELSE Resolve(tcPromise),
            fbPromise, e, emitted)

\* lines 75-82: the .catch of the chain, for the error e of either query; ce is
\* checksumEnabled and sqls the statements sent on the stream connection when
\* the handler runs.  The SELECT 1 of line 78 fails at once on a destroyed
\* connection, and nothing handles that rejection: next is never called
Catch(e, ce, sqls) ==
  IF Matches(e)
    THEN /\ checksumEnabled' = FALSE
         /\ streamSql' = Append(sqls, SelectOne)
         /\ connQuery' = IF connDestroyed THEN Undef ELSE Def(StreamQuery(SelectOne, "catch"))
         /\ chain' = IF connDestroyed THEN "unhandled" ELSE "catch"
         /\ UNCHANGED <<useChecksum, nextCalls, tcPromise, fbPromise, allPromise,
                        emitted, BinlogClass, binlogStream, ready>>
    ELSE /\ checksumEnabled' = ce
         /\ streamSql' = sqls
         /\ connQuery' = Undef
         /\ chain' = "done"
         /\ Continuation(TRUE, e, ce)

\* mutant: the stream connection always adopts the checksum
ChecksumSqlAlwaysSet(v) == SetChecksumSql
\* lines 66-72: the statement the stream connection gets for the reported value
ChecksumSql(v) == IF v = "NONE" THEN SelectOne ELSE SetChecksumSql

\* lines 65-74: the checksum query succeeded with value v (checksumEnabled is
\* still true at line 71: only lines 67 and 77 clear it).  The statement of
\* line 68 or 72 fails at once on a destroyed connection
AnswerChecksum(v) ==
  /\ ctrlQueue # <<>>
  /\ Head(ctrlQueue).kind = "checksum"
  /\ ctrlQueue' = Tail(ctrlQueue)
  /\ checksumReply' = v
  /\ LET sql == ChecksumSql(v)
         ce == IF v = "NONE" THEN FALSE ELSE checksumEnabled
     IN IF connDestroyed
          THEN /\ Catch(ClosedError, ce, Append(streamSql, sql))
               /\ negFailed' = negFailed \cup {"stream"}
          ELSE /\ checksumEnabled' = ce
               /\ streamSql' = Append(streamSql, sql)
               /\ connQuery' = Def(StreamQuery(sql, "then"))
               /\ chain' = "then"
               /\ UNCHANGED <<useChecksum, nextCalls, tcPromise, fbPromise, allPromise,
                              emitted, BinlogClass, binlogStream, ready, negFailed>>
  /\ UNCHANGED <<options, filters, tableMap, stopped, ctrlConnectionOwner,
                 ctrlDestroyed, connDestroyed, connPaused, startArgs,
                 stopCalls, stopPhase, teardown, listing, lookups, events, call>>
  /\ UNCHANGED answers

\* the checksum query failed with error e
AnswerChecksumError(e) ==
  /\ ctrlQueue # <<>>
  /\ Head(ctrlQueue).kind = "checksum"
  /\ ctrlQueue' = Tail(ctrlQueue)
  /\ checksumReply' = e
  /\ Catch(e, checksumEnabled, streamSql)
  /\ negFailed' = negFailed \cup (IF Matches(e) THEN {} ELSE {"checksum"})
                            \cup (IF Matches(e) /\ connDestroyed THEN {"stream"} ELSE {})
  /\ UNCHANGED <<options, filters, tableMap, stopped, ctrlConnectionOwner,
                 ctrlDestroyed, connDestroyed, connPaused, startArgs,
                 stopCalls, stopPhase, teardown, listing, lookups, events, call>>
  /\ UNCHANGED answers

\* the statement in flight on the stream connection succeeded: the .catch is
\* skipped, the last .then calls next(null, checksumEnabled)
AnswerStream ==
  /\ IsDef(connQuery)
  /\ connQuery' = Undef
  /\ chain' = "done"
  /\ Continuation(FALSE, "", checksumEnabled)
  /\ UNCHANGED <<options, filters, tableMap, stopped, ctrlConnectionOwner, ctrlQueue,
                 ctrlDestroyed, connDestroyed, connPaused, startArgs, checksumEnabled,
                 stopCalls, stopPhase, teardown, streamSql, listing, negFailed,
                 lookups, events, call>>
  /\ UNCHANGED <<answers, checksumReply>>

\* the statement in flight on the stream connection failed.  Issued by the
\* first .then (68, 72) its error reaches the .catch; issued by the .catch (78)
\* its error rejects the promise the last .then hangs on, which has no
\* rejection handler: next is never called
AnswerStreamError(e) ==
  /\ IsDef(connQuery)
  /\ negFailed' = negFailed \cup {"stream"}
  /\ IF Val(connQuery).stage = "then"
       THEN Catch(e, checksumEnabled, streamSql)
       ELSE /\ connQuery' = Undef
            /\ chain' = "unhandled"
            /\ UNCHANGED <<checksumEnabled, streamSql, useChecksum, nextCalls,
                           tcPromise, fbPromise, allPromise, emitted, BinlogClass,
                           binlogStream, ready>>
  /\ UNCHANGED <<options, filters, tableMap, stopped, ctrlConnectionOwner, ctrlQueue,
                 ctrlDestroyed, connDestroyed, connPaused, startArgs,
                 stopCalls, stopPhase, teardown, listing, lookups, events, call>>
  /\ UNCHANGED <<answers, checksumReply>>

\* ---------------------------------------------- _findBinlogEnd: 89-94
\* mutant: the first row of the listing instead of the last
BinlogEndFirst(rows) == IF Len(rows) > 0 THEN Def(rows[1]) ELSE Undef
\* line 92: the last row of the listing, or null
BinlogEnd(rows) == IF Len(rows) > 0 THEN Def(rows[Len(rows)]) ELSE Undef

\* lines 160-171 with 90-93: SHOW BINARY LOGS answered with rows
AnswerShowLogs(rows) ==
  /\ ctrlQueue # <<>>
  /\ Head(ctrlQueue).kind = "showlogs"
  /\ ctrlQueue' = Tail(ctrlQueue)
  /\ listing' = Def(rows)
  /\ LET result == BinlogEnd(rows)
     IN options' =
          IF IsDef(result)
            THEN Options([Val(startArgs) EXCEPT
                            !.filename = Def(Val(result).Log_name),
                            !.position = Def(Val(result).File_size)])
            ELSE options
  /\ Settle(allPromise, tcPromise, Resolve(fbPromise), "", emitted)
  /\ UNCHANGED <<filters, tableMap, stopped, useChecksum, ctrlConnectionOwner,
                 ctrlDestroyed, connQuery, connDestroyed, connPaused, startArgs,
                 checksumEnabled, chain,
                 stopCalls, stopPhase, teardown, nextCalls, streamSql, negFailed,
                 lookups, events, call>>
  /\ UNCHANGED <<answers, checksumReply>>

\* lines 91 and 161: SHOW BINARY LOGS failed
AnswerShowLogsError ==
  /\ ctrlQueue # <<>>
  /\ Head(ctrlQueue).kind = "showlogs"
  /\ ctrlQueue' = Tail(ctrlQueue)
  /\ negFailed' = negFailed \cup {"listing"}
  /\ Settle(allPromise, tcPromise, Reject(fbPromise), "ER_SHOW_BINARY_LOGS", emitted)
  /\ UNCHANGED <<options, filters, tableMap, stopped, useChecksum, ctrlConnectionOwner,
                 ctrlDestroyed, connQuery, connDestroyed, connPaused, startArgs,
                 checksumEnabled, chain,
                 stopCalls, stopPhase, teardown, nextCalls, streamSql, listing,
                 lookups, events, call>>
  /\ UNCHANGED <<answers, checksumReply>>

\* ------------------------------------------------------ stop(): 191-202
\* mutant: stop() tears down on every call
StopGuardAlways == TRUE
\* line 192
StopGuard == ~stopped

\* mutant: stop() destroys the control connection without waiting for the KILL
StopDestroysControl ==
  /\ stopCalls' = IF stopCalls < 2 THEN stopCalls + 1 ELSE stopCalls
  /\ IF StopGuard
       THEN /\ stopped' = TRUE
            /\ connDestroyed' = TRUE
            /\ ctrlDestroyed' = TRUE
            /\ ctrlQueue' = Append(ctrlQueue, CtrlQuery("kill", Undef))
            /\ teardown' = [teardown EXCEPT !.connDestroy = @ + 1, !.kill = @ + 1,
                                            !.ctrlDestroy = @ + 1]
            /\ stopPhase' = IF stopPhase = "never" THEN allPromise ELSE stopPhase
       ELSE UNCHANGED <<stopped, connDestroyed, ctrlDestroyed, ctrlQueue, teardown,
                        stopPhase>>
  /\ UNCHANGED <<options, filters, tableMap, ready, useChecksum, ctrlConnectionOwner,
                 connQuery, connPaused, BinlogClass, binlogStream,
                 startArgs, checksumEnabled, chain, tcPromise, fbPromise, allPromise,
                 emitted, nextCalls, streamSql, listing, negFailed, lookups, events,
                 call>>
  /\ UNCHANGED <<answers, checksumReply>>

\* lines 191-201: stop()
Stop ==
  /\ stopCalls' = IF stopCalls < 2 THEN stopCalls + 1 ELSE stopCalls
  /\ IF StopGuard
       THEN /\ stopped' = TRUE
            /\ connDestroyed' = TRUE
            /\ ctrlQueue' = Append(ctrlQueue, CtrlQuery("kill", Undef))
            /\ teardown' = [teardown EXCEPT !.connDestroy = @ + 1, !.kill = @ + 1]
            /\ stopPhase' = IF stopPhase = "never" THEN allPromise ELSE stopPhase
       ELSE UNCHANGED <<stopped, connDestroyed, ctrlQueue, teardown, stopPhase>>
  /\ UNCHANGED <<options, filters, tableMap, ready, useChecksum, ctrlConnectionOwner,
                 ctrlDestroyed, connQuery, connPaused, BinlogClass, binlogStream,
                 startArgs, checksumEnabled, chain, tcPromise, fbPromise, allPromise,
                 emitted, nextCalls, streamSql, listing, negFailed, lookups, events,
                 call>>
  /\ UNCHANGED <<answers, checksumReply>>

\* mutant: a failed KILL is reported and the session never signals 'stopped'
KillCallbackReporting(failed, em) ==
  /\ ctrlDestroyed' = (ctrlDestroyed \/ ctrlConnectionOwner)
  /\ teardown' = [teardown EXCEPT
                    !.ctrlDestroy = IF ctrlConnectionOwner THEN @ + 1 ELSE @,
                    !.killFailed = failed]
  /\ emitted' = IF failed THEN Emit(em, "error", Undef, "ER_KILL")
                          ELSE Emit(em, "stopped", Undef, "")

\* lines 196-199: the callback of the KILL query; its error is not looked at
KillCallback(failed, em) ==
  /\ ctrlDestroyed' = (ctrlDestroyed \/ ctrlConnectionOwner)
  /\ teardown' = [teardown EXCEPT
                    !.ctrlDestroy = IF ctrlConnectionOwner THEN @ + 1 ELSE @,
                    !.killFailed = failed]
  /\ emitted' = Emit(em, "stopped", Undef, "")

AnswerKill(failed) ==
  /\ ctrlQueue # <<>>
  /\ Head(ctrlQueue).kind = "kill"
  /\ ctrlQueue' = Tail(ctrlQueue)
  /\ KillCallback(failed, emitted)
  /\ UNCHANGED <<options, filters, tableMap, ready, stopped, useChecksum,
                 ctrlConnectionOwner, connQuery, connDestroyed, connPaused,
                 BinlogClass, binlogStream, startArgs, checksumEnabled, chain,
                 tcPromise, fbPromise, allPromise,
                 stopCalls, stopPhase, nextCalls, streamSql, listing, negFailed,
                 lookups, events, call>>
  /\ UNCHANGED <<answers, checksumReply>>

\* ------------------------------------------------ pause / resume: 203-204
\* mutant: pause() reaches the connection of a stopped session too
PauseGuardAlways == TRUE
\* line 203
PauseGuard == ~stopped

Pause ==
  /\ connPaused' = IF PauseGuard THEN TRUE ELSE connPaused
  /\ UNCHANGED <<options, filters, tableMap, ready, stopped, useChecksum,
                 ctrlConnectionOwner, ctrlQueue, ctrlDestroyed, connQuery,
                 connDestroyed, BinlogClass, binlogStream, startArgs,
                 checksumEnabled, chain, tcPromise, fbPromise, allPromise, emitted,
                 stopCalls, stopPhase, teardown, nextCalls, streamSql, listing,
                 negFailed, lookups, events, call>>
  /\ UNCHANGED <<answers, checksumReply>>

\* line 204
ResumeGuard == ~stopped

Resume ==
  /\ connPaused' = IF ResumeGuard THEN FALSE ELSE connPaused
  /\ UNCHANGED <<options, filters, tableMap, ready, stopped, useChecksum,
                 ctrlConnectionOwner, ctrlQueue, ctrlDestroyed, connQuery,
                 connDestroyed, BinlogClass, binlogStream, startArgs,
                 checksumEnabled, chain, tcPromise, fbPromise, allPromise, emitted,
                 stopCalls, stopPhase, teardown, nextCalls, streamSql, listing,
                 negFailed, lookups, events, call>>
  /\ UNCHANGED <<answers, checksumReply>>


\* ------------------------------------------- _fetchTableInfo: 97-121
\* lines 113-117: the cache entry written for a table-map event
TableEntry(evt, rows) ==
  [columnSchemas |-> rows, parentSchema |-> evt.schemaName, tableName |-> evt.tableName]

\* lines 98-100: the decoder met a table-map event while it reads the stream
FetchTableInfo(evt) ==
  /\ IsDef(binlogStream)
  /\ ~connDestroyed
  /\ events < MaxEvents
  /\ events' = events + 1
  /\ lookups' = Append(lookups, evt)
  /\ ctrlQueue' = Append(ctrlQueue, CtrlQuery("tableinfo", Def(evt)))
  /\ UNCHANGED <<options, filters, tableMap, ready, stopped, useChecksum,
                 ctrlConnectionOwner, ctrlDestroyed, connQuery, connDestroyed,
                 connPaused, BinlogClass, binlogStream, startArgs, checksumEnabled,
                 chain, tcPromise, fbPromise, allPromise, emitted,
                 stopCalls, stopPhase, teardown, nextCalls, streamSql, listing,
                 negFailed, call>>
  /\ UNCHANGED <<answers, checksumReply>>

\* mutant: a lookup without rows is dropped without a notification
TableInfoRowsSilent(evt, rows) ==
  IF Len(rows) = 0
    THEN UNCHANGED <<emitted, tableMap>>
    ELSE /\ tableMap' = [tableMap EXCEPT ![evt.tableId] = Def(TableEntry(evt, rows))]
         /\ UNCHANGED emitted

\* lines 103-119: the effect of the rows on the cache and on the channel
TableInfoRows(evt, rows) ==
  IF Len(rows) = 0
    THEN /\ emitted' = Emit(emitted, "error", Undef, "INSUFFICIENT_PERMISSIONS_OR_DROPPED")
         /\ UNCHANGED tableMap
    ELSE /\ tableMap' = [tableMap EXCEPT ![evt.tableId] = Def(TableEntry(evt, rows))]
         /\ UNCHANGED emitted

\* the metadata query answered with rows: none, or the columns of the table
AnswerTableInfo(found) ==
  /\ ctrlQueue # <<>>
  /\ Head(ctrlQueue).kind = "tableinfo"
  /\ ctrlQueue' = Tail(ctrlQueue)
  /\ answers' = Append(answers, IF found THEN "rows" ELSE "none")
  /\ LET evt == Val(Head(ctrlQueue).evt)
     IN TableInfoRows(evt, IF found THEN Columns(evt.schemaName, evt.tableName) ELSE <<>>)
  /\ UNCHANGED <<options, filters, ready, stopped, useChecksum, ctrlConnectionOwner,
                 ctrlDestroyed, connQuery, connDestroyed, connPaused, BinlogClass,
                 binlogStream, startArgs, checksumEnabled, chain, tcPromise,
                 fbPromise, allPromise,
                 stopCalls, stopPhase, teardown, nextCalls, streamSql, listing,
                 negFailed, lookups, events, call>>
  /\ UNCHANGED checksumReply

\* line 101: the metadata query failed
AnswerTableInfoError ==
  /\ ctrlQueue # <<>>
  /\ Head(ctrlQueue).kind = "tableinfo"
  /\ ctrlQueue' = Tail(ctrlQueue)
  /\ answers' = Append(answers, "error")
  /\ emitted' = Emit(emitted, "error", Undef, "ER_TABLE_INFO")
  /\ UNCHANGED <<options, filters, tableMap, ready, stopped, useChecksum,
                 ctrlConnectionOwner, ctrlDestroyed, connQuery, connDestroyed,
                 connPaused, BinlogClass, binlogStream, startArgs, checksumEnabled,
                 chain, tcPromise, fbPromise, allPromise,
                 stopCalls, stopPhase, teardown, nextCalls, streamSql, listing,
                 negFailed, lookups, events, call>>
  /\ UNCHANGED checksumReply

\* ------------------------------------------- the binlog callback: 179
\* what the decoder hands to its callback: an event, or an error
BinlogResults ==
  {[evt |-> Def([name |-> n, schemaName |-> "db1", tableName |-> "t1"]), err |-> ""] : n \in EventNames}
  \cup {[evt |-> Undef, err |-> "ER_DECODE"]}

BinlogCallback(r) ==
  /\ IsDef(binlogStream)
  /\ ~connDestroyed
  /\ events < MaxEvents
  /\ events' = events + 1
  /\ emitted' = Emit(emitted, "binlog", r.evt, r.err)
  /\ UNCHANGED <<options, filters, tableMap, ready, stopped, useChecksum,
                 ctrlConnectionOwner, ctrlQueue, ctrlDestroyed, connQuery,
                 connDestroyed, connPaused, BinlogClass, binlogStream, startArgs,
                 checksumEnabled, chain, tcPromise, fbPromise, allPromise,
                 stopCalls, stopPhase, teardown, nextCalls, streamSql, listing,
                 negFailed, lookups, call>>
  /\ UNCHANGED <<answers, checksumReply>>

\* ------------------------------------- _skipEvent, _skipSchema: 207-229
\* mutant: an event is skipped only when it is excluded and not included
SkipEventInclusionWins(name) ==
  LET includes == filters.includeEvents
      excludes == filters.excludeEvents
      included == ~IsDef(includes) \/ name \in Val(includes)
      excluded == IsDef(excludes) /\ name \in Val(excludes)
  IN excluded /\ ~included

\* lines 207-213
SkipEvent(name) ==
  LET includes == filters.includeEvents
      excludes == filters.excludeEvents
      included == ~IsDef(includes) \/ name \in Val(includes)
      excluded == IsDef(excludes) /\ name \in Val(excludes)
  IN excluded \/ ~included

\* mutant: a table list matches every table of its schema
RuleMatchesAnyList(map, db, table) ==
  /\ IsDef(map[db])
  /\ LET rule == Val(map[db])
     IN \/ rule.kind = "all"
        \/ rule.kind = "list"
        \/ rule.kind = "fn" /\ rule.f[table]

\* lines 219-222 and 224-227: db is a key of the map and its rule matches table
RuleMatches(map, db, table) ==
  /\ IsDef(map[db])
  /\ LET rule == Val(map[db])
     IN \/ rule.kind = "all"
        \/ rule.kind = "list" /\ table \in rule.tables
        \/ rule.kind = "fn" /\ rule.f[table]

\* lines 214-229
SkipSchema(db, table) ==
  LET includes == filters.includeSchema
      excludes == IF IsDef(filters.excludeSchema)
                    THEN Val(filters.excludeSchema)
                    ELSE [d \in Dbs |-> Undef]
      included == ~IsDef(includes) \/ RuleMatches(Val(includes), db, table)
      excluded == RuleMatches(excludes, db, table)
  IN excluded \/ ~included

\* a call of _skipEvent by the decoder, with its result
CallSkipEvent(name) ==
  /\ call' = Def([fn |-> "_skipEvent", name |-> name, db |-> "", table |-> "",
                  result |-> SkipEvent(name)])
  /\ UNCHANGED session
  /\ UNCHANGED <<stopCalls, stopPhase, teardown, nextCalls, streamSql, listing,
                 negFailed, lookups, events>>
  /\ UNCHANGED <<answers, checksumReply>>

\* a call of _skipSchema by the decoder, with its result
CallSkipSchema(db, table) ==
  /\ call' = Def([fn |-> "_skipSchema", name |-> "", db |-> db, table |-> table,
                  result |-> SkipSchema(db, table)])
  /\ UNCHANGED session
  /\ UNCHANGED <<stopCalls, stopPhase, teardown, nextCalls, streamSql, listing,
                 negFailed, lookups, events>>
  /\ UNCHANGED <<answers, checksumReply>>

\* ------------------------------------------------- the specifications
\* the argument of start(): options and filters in one object
StartArgs ==
  {[serverId |-> o.serverId, filename |-> o.filename, position |-> o.position,
    startAtEnd |-> o.startAtEnd,
    includeEvents |-> f.includeEvents, excludeEvents |-> f.excludeEvents,
    includeSchema |-> f.includeSchema, excludeSchema |-> f.excludeSchema] :
     o \in StartOptionArgs, f \in StartFilterArgs}

\* the control connection answers the query at the head of its queue
CtrlAnswer ==
  \/ \E v \in ChecksumValues : AnswerChecksum(v)
  \/ \E e \in ChecksumErrors : AnswerChecksumError(e)
  \/ \E rows \in Listings : AnswerShowLogs(rows)
  \/ AnswerShowLogsError
  \/ \E found \in BOOLEAN : AnswerTableInfo(found)
  \/ AnswerTableInfoError
  \/ \E failed \in BOOLEAN : AnswerKill(failed)

\* the stream connection answers the statement it holds
StreamAnswer ==
  \/ AnswerStream
  \/ \E e \in StreamErrors : AnswerStreamError(e)

Next ==
  \/ \E a \in StartArgs : Start(a)
  \/ Stop
  \/ Pause
  \/ Resume
  \/ CtrlAnswer
  \/ StreamAnswer
  \/ \E evt \in TableMapEvents : FetchTableInfo(evt)
  \/ \E r \in BinlogResults : BinlogCallback(r)

\* the lifecycle of one session
Spec == Init /\ [][Next]_vars

\* the lifecycle when the control connection answers every query
LiveSpec == Spec /\ WF_vars(CtrlAnswer)

\* the filter functions on every filter configuration
FilterInit == \E a \in FilterArgs : InitWith(Filters(a))

FilterNext ==
  \/ \E name \in EventNames : CallSkipEvent(name)
  \/ \E db \in Dbs, table \in Tables : CallSkipSchema(db, table)

FilterSpec == FilterInit /\ [][FilterNext]_vars


\* =========================================================== properties
StoppedNotification == [type |-> "stopped", evt |-> Undef, err |-> ""]
\* stop() took effect while the negotiation of start() had not completed
StoppedBeforeCompletion == stopPhase \in {"none", "pending"}

\* C1: when stop() is called before the negotiation launched by start() has
\* completed (also before start()), 'ready' is never emitted and the decoder is
\* never started, and 'stopped' is eventually emitted.
C1_StopBeforeCompletion ==
  /\ [](StoppedBeforeCompletion =>
          ~ready /\ ~IsDef(binlogStream) /\ ~Emitted("ready"))
  /\ (StoppedBeforeCompletion ~> Emitted("stopped"))

\* the negotiation completed successfully after stop(), and 'stopped' was emitted
C1_Witness ==
  /\ stopPhase = "pending"
  /\ allPromise = "fulfilled"
  /\ Emitted("stopped")

\* C2: with two or more stop() calls, 'stopped' is emitted exactly once, each
\* teardown step (stream destroy, KILL, control destroy) is done once, and a
\* stop() call on a stopped session changes nothing and emits nothing.
C2_StopIdempotent ==
  /\ [](/\ CountEmitted("stopped") <= 1
        /\ teardown.connDestroy <= 1
        /\ teardown.kill <= 1
        /\ teardown.ctrlDestroy <= 1)
  /\ [][stopped /\ stopCalls' # stopCalls => UNCHANGED <<session, teardown>>]_vars
  /\ (stopCalls >= 2 ~> CountEmitted("stopped") = 1)

\* stop() was called twice and the one teardown has finished
C2_Witness ==
  /\ stopCalls = 2
  /\ CountEmitted("stopped") = 1
  /\ teardown = [connDestroy |-> 1, kill |-> 1, ctrlDestroy |-> 1, killFailed |-> FALSE]

\* C3: after stop(), 'stopped' is eventually emitted (the control connection
\* answering its queries), whether the KILL succeeds or fails; the task that
\* receives a failed KILL emits 'stopped' and nothing else.
C3_StopAlwaysSignals ==
  /\ (stopped ~> Emitted("stopped"))
  /\ [][teardown'.killFailed /\ ~teardown.killFailed =>
          emitted' = Append(emitted, StoppedNotification)]_vars

\* the KILL failed and 'stopped' was emitted all the same, with no 'error'
C3_Witness ==
  /\ teardown.killFailed
  /\ Emitted("stopped")
  /\ ~Emitted("error")

\* C4: once 'stopped' has been emitted, nothing more is emitted.
C4_StoppedTerminatesChannel ==
  [][Emitted("stopped") => emitted' = emitted]_vars

\* no query of the negotiation is waiting for its answer
NegotiationQuiet ==
  /\ chain \notin {"select", "then", "catch"}
  /\ \A i \in 1..Len(ctrlQueue) : ctrlQueue[i].kind # "showlogs"
NegotiationErrors ==
  ChecksumErrors \cup StreamErrors \cup {ClosedError, "ER_SHOW_BINARY_LOGS"}

\* C5: when a query of the negotiation has failed (the checksum query with an
\* error other than the unknown-variable one, a statement on the stream
\* connection, or the log listing) in a session nobody stopped, and the
\* negotiation has no query left to wait for, an 'error' carrying a negotiation
\* failure has been emitted, the decoder is not started and 'ready' is not
\* emitted.
C5_NegotiationFailureFailsStart ==
  (negFailed # {} /\ NegotiationQuiet /\ stopPhase = "never") =>
    /\ \E i \in 1..Len(emitted) :
         emitted[i].type = "error" /\ emitted[i].err \in NegotiationErrors
    /\ ~IsDef(binlogStream)
    /\ ~Emitted("ready")

\* C6: when stop() is called between start() and the moment start would signal
\* readiness, start settles without error (its promise is not rejected, so no
\* 'error' is emitted for the negotiation) and 'ready' is never emitted.
C6_StopDuringStartSettlesQuietly ==
  stopPhase = "pending" => (allPromise # "rejected" /\ ~Emitted("ready"))

\* C7: with startAtEnd and a non-empty listing, once the decoder is started the
\* filename and position of get() are the name and size of the last entry of
\* the listing; the decoder is not started before the listing was answered.
C7_TailStartPosition ==
  (IsDef(binlogStream) /\ Truthy(Val(startArgs).startAtEnd)) =>
    /\ IsDef(listing)
    /\ fbPromise = "resolved"
    /\ Len(Val(listing)) > 0 =>
         LET last == Val(listing)[Len(Val(listing))]
         IN /\ Get("filename") = Def(last.Log_name)
            /\ Get("position") = Def(last.File_size)

\* streaming from the end of a listing of two files, the caller's position overridden
C7_Witness ==
  /\ ready
  /\ IsDef(binlogStream)
  /\ Truthy(Val(startArgs).startAtEnd)
  /\ IsDef(Val(startArgs).filename)
  /\ IsDef(listing)
  /\ Len(Val(listing)) = 2
  /\ Get("filename") = Def(2)

\* C8: _skipEvent(n) is true iff n is in excludeEvents, or includeEvents is
\* present and n is not in it.
C8_SkipEvent ==
  (IsDef(call) /\ Val(call).fn = "_skipEvent") =>
    LET n == Val(call).name
        inc == filters.includeEvents
        exc == filters.excludeEvents
    IN Val(call).result <=>
         ((IsDef(exc) /\ n \in Val(exc)) \/ (IsDef(inc) /\ n \notin Val(inc)))

\* an event named in both lists is skipped
C8_Witness ==
  /\ IsDef(call)
  /\ Val(call).fn = "_skipEvent"
  /\ IsDef(filters.includeEvents)
  /\ IsDef(filters.excludeEvents)
  /\ Val(call).name \in Val(filters.includeEvents) \cap Val(filters.excludeEvents)
  /\ Val(call).result

\* the rule an optional schema map holds for db matches table: all-tables
\* always, a table list by membership, a predicate by its result
Matching(optMap, db, table) ==
  /\ IsDef(optMap)
  /\ IsDef(Val(optMap)[db])
  /\ CASE Val(Val(optMap)[db]).kind = "all" -> TRUE
       [] Val(Val(optMap)[db]).kind = "list" -> table \in Val(Val(optMap)[db]).tables
       [] Val(Val(optMap)[db]).kind = "fn" -> Val(Val(optMap)[db]).f[table]

C10_LastWriteWins ==
  (/\ Len(lookups) >= 2
   /\ \A i \in 1..Len(ctrlQueue) : ctrlQueue[i].kind # "tableinfo"
   /\ lookups[Len(lookups) - 1].tableId = lookups[Len(lookups)].tableId
   /\ lookups[Len(lookups) - 1].tableName # lookups[Len(lookups)].tableName) =>
    LET second == lookups[Len(lookups)]
        entry == tableMap[second.tableId]
    IN IsDef(entry) =>
         entry = Def(TableEntry(second, Columns(second.schemaName, second.tableName)))

\* the notification of a metadata lookup that found no rows
NoRowsNotification ==
  [type |-> "error", evt |-> Undef, err |-> "INSUFFICIENT_PERMISSIONS_OR_DROPPED"]

\* C11: when a metadata lookup is answered with zero rows while the session
\* is streaming (ready, not stopped), that step emits exactly one 'error' and
\* nothing else, stopped stays false, ready stays true and neither connection
\* is destroyed; and every step that sets stopped is a call of stop().
C11_ZeroRowsKeepStreaming ==
  /\ [][(answers' = Append(answers, "none") /\ ready /\ ~stopped) =>
          /\ emitted' = Append(emitted, NoRowsNotification)
          /\ ready' /\ ~stopped'
          /\ UNCHANGED <<connDestroyed, ctrlDestroyed, teardown>>]_vars
  /\ [][(~stopped /\ stopped') => stopCalls' = stopCalls + 1]_vars
C11_Witness ==
  /\ \E i \in 1..Len(answers) : answers[i] = "none"
  /\ emitted # <<>> /\ emitted[Len(emitted)] = NoRowsNotification
  /\ ready /\ ~stopped /\ ~connDestroyed /\ ~ctrlDestroyed
  /\ ~Emitted("stopped")

\* C12: no event whose name satisfies skipEvent and no event whose (schema,
\* table) satisfies skipSchema has been delivered as 'binlog'.
C12_FilteredEventsNotDelivered ==
  \A i \in 1..Len(emitted) :
    (emitted[i].type = "binlog" /\ IsDef(emitted[i].evt)) =>
      LET e == Val(emitted[i].evt)
      IN ~SkipEvent(e.name) /\ ~SkipSchema(e.schemaName, e.tableName)

\* the statements the negotiation has issued on the stream connection
Issued(sql) == \E i \in 1..Len(streamSql) : streamSql[i] = sql

\* C13: a negotiation that completed without an error has the flag false
\* exactly when the server reported "NONE" or the checksum query failed with
\* the unknown-variable error; the adopt-checksum statement has been issued on
\* the stream connection exactly when the flag is true, and with the flag
\* false only the no-op query has been issued there. In every state the
\* adopt-checksum statement is issued only after a reply other than "NONE".
C13_ChecksumOutcome ==
  /\ (chain = "done" /\ nextCalls = <<"ok">>) =>
       /\ useChecksum = (checksumReply \notin {"NONE", "ER_UNKNOWN_SYSTEM_VARIABLE"})
       /\ useChecksum = checksumEnabled
       /\ Issued(SetChecksumSql) = useChecksum
       /\ ~useChecksum => streamSql = <<SelectOne>>
       /\ useChecksum => streamSql = <<SetChecksumSql>>
  /\ Issued(SetChecksumSql) => checksumReply \in ChecksumValues \ {"NONE"}
  /\ Issued(SelectOne) => checksumReply \in {"NONE", "ER_UNKNOWN_SYSTEM_VARIABLE"}
C13_Witness ==
  /\ chain = "done" /\ nextCalls = <<"ok">>
  /\ checksumReply = "ER_UNKNOWN_SYSTEM_VARIABLE"
  /\ ~useChecksum /\ streamSql = <<SelectOne>>

\* C14: once stop() has been called while the negotiation was in flight, no
\* step issues a statement on the stream connection, modifies useChecksum or
\* rewrites the options (filename, position).
C14_ResumeRechecksStopped ==
  [][stopPhase = "pending" => UNCHANGED <<streamSql, useChecksum, options>>]_vars

\* the queries of one kind outstanding on the control connection
Outstanding(kind) ==
  Cardinality({i \in 1..Len(ctrlQueue) : ctrlQueue[i].kind = kind})

\* C15 as stated: at most one query is outstanding on the control connection
\* and at most one on the stream connection.
C15_OneOutstandingPerConnection ==
  /\ Len(ctrlQueue) <= 1
  /\ IsDef(connQuery) => chain \in {"then", "catch"}

\* C15: the control connection has at most one outstanding query of each of
\* the checksum query, the log listing and the KILL, and the checksum
\* negotiation has at most one query outstanding over both connections: a
\* statement is outstanding on the stream connection only while the checksum
\* query is not, and only for the stage of the chain that issued it.
C15_OutstandingQueries ==
  /\ \A kind \in {"checksum", "showlogs", "kill"} : Outstanding(kind) <= 1
  /\ ~(Outstanding("checksum") = 1 /\ IsDef(connQuery))
  /\ IsDef(connQuery) => chain \in {"then", "catch"}
  /\ Outstanding("checksum") = 1 => chain = "select"
C15_Witness ==
  /\ Outstanding("checksum") = 1
  /\ Outstanding("showlogs") = 1
  /\ Outstanding("kill") = 1

\* C16: the KILL is outstanding only with the stream connection destroyed and
\* the control connection not yet destroyed; the control connection is
\* destroyed only by the step that answers the KILL, only when the session
\* owns it, and that step emits 'stopped' after it; 'stopped' is never
\* emitted before the control connection of an owning session is destroyed.
C16_TeardownOrder ==
  /\ [](Outstanding("kill") >= 1 => (connDestroyed /\ ~ctrlDestroyed))
  /\ [](ctrlDestroyed => (ctrlConnectionOwner /\ connDestroyed
                            /\ teardown.kill >= 1 /\ Outstanding("kill") = 0))
  /\ [](Emitted("stopped") => (connDestroyed /\ (ctrlConnectionOwner => ctrlDestroyed)))
  /\ [][(~ctrlDestroyed /\ ctrlDestroyed') =>
          /\ ctrlQueue # <<>> /\ Head(ctrlQueue).kind = "kill"
          /\ ctrlQueue' = Tail(ctrlQueue)
          /\ emitted' = Append(emitted, StoppedNotification)]_vars
  /\ [][(teardown'.kill > teardown.kill) =>
          (connDestroyed' /\ ~ctrlDestroyed' /\ ~Emitted("stopped")')]_vars
C16_Witness ==
  /\ connDestroyed /\ ctrlDestroyed /\ ctrlConnectionOwner
  /\ teardown.kill = 1 /\ teardown.ctrlDestroy = 1
  /\ emitted # <<>> /\ emitted[Len(emitted)] = StoppedNotification

\* C17: a step of pause() or resume() that changes the flow control of the
\* stream connection happens only while the session is not stopped, and it
\* changes nothing else: not ready or stopped, the options, the filters, the
\* table cache, the connections' queries or the emitted notifications.
C17_PauseResumeFrame ==
  [][connPaused' # connPaused =>
       /\ ~stopped
       /\ UNCHANGED <<options, filters, tableMap, ready, stopped, useChecksum,
                      ctrlConnectionOwner, ctrlQueue, ctrlDestroyed, connQuery,
                      connDestroyed, BinlogClass, binlogStream, chain, tcPromise,
                      fbPromise, allPromise, emitted, streamSql>>]_vars
C17_Witness ==
  /\ connPaused /\ stopped /\ ready /\ Emitted("stopped")

\* C18: the continuation of the checksum negotiation is never called more than
\* once, and a negotiation that has come to its end has called it once.
C18_ContinuationOnce ==
  /\ Len(nextCalls) <= 1
  /\ chain \in {"done", "unhandled"} => Len(nextCalls) = 1

\* C19: useChecksum is true only if the checksum query succeeded with a value
\* other than "NONE" and the adopt-checksum statement succeeded; a negotiation
\* that reported an error leaves useChecksum false.
C19_UseChecksumOnlyAfterAdoption ==
  /\ useChecksum => /\ checksumReply \in ChecksumValues \ {"NONE"}
                    /\ Issued(SetChecksumSql)
                    /\ nextCalls = <<"ok">>
  /\ (\E i \in 1..Len(nextCalls) : nextCalls[i] = "err") => ~useChecksum

\* C20: the decoder is started only in a step taken with stopped false and
\* the stream connection not destroyed, so the connection it was handed was
\* not destroyed; and whenever ready is true the decoder has been started.
C20_DecoderGetsLiveConnection ==
  /\ [](IsDef(binlogStream) => ~Val(binlogStream).connDestroyed)
  /\ [](ready => (IsDef(binlogStream) /\ BinlogClass))
  /\ [][(~IsDef(binlogStream) /\ IsDef(binlogStream')) =>
          (~stopped /\ ~connDestroyed /\ ready')]_vars
C20_Witness ==
  /\ ready /\ IsDef(binlogStream) /\ ~Val(binlogStream).connDestroyed
  /\ stopped /\ connDestroyed

====
